---- MODULE Spec2Model ----
(***************************************************************************)
(* Model of the oneseismic request planner (core/src/plan.cpp): the driver *)
(* mkschedule, the shared schedule pipeline, the slice and curtain         *)
(* planners, the partitioner and the response header.                      *)
(*                                                                         *)
(* Conventions.  C++ vectors are TLA+ sequences, so the element the code   *)
(* calls v[k] is v[k + 1] here; axis numbers (dim) and loop counters keep  *)
(* the code's 0-based values.  Iterators are 1-based positions, end() of a *)
(* vector v being Len(v) + 1.                                              *)
(***************************************************************************)
EXTENDS Integers, Sequences, FiniteSets, TLC

\* ------------------------------------------------------------------ bounds
\* Largest extent of a cube axis (number of line numbers on the axis).
MaxCube == 2
\* Largest extent of a fragment axis.
MaxFrag == 2
\* Largest number of (x, y) points in a curtain request.
MaxPoints == 2
\* Largest task_size passed to mkschedule.
MaxTaskSize == 2
\* Longest attribute list of a request in the attribute-list specification.
MaxAttrs == 3
\* Widest int, in bits, of the calls of task_count on its own.
MaxWidth == 5
\* Largest number of points of the surface stitch reads.
MaxSurface == 3

\* ------------------------------------------------------------- arithmetic
Min(a, b) == IF a < b THEN a ELSE b

\* C++ integer division truncates toward zero.
TruncDiv(a, b) ==
    IF (a >= 0) = (b > 0) THEN (IF a >= 0 THEN a ELSE -a) \div (IF b > 0 THEN b ELSE -b)
    ELSE -((IF a >= 0 THEN a ELSE -a) \div (IF b > 0 THEN b ELSE -b))

\* The value a w-bit two's complement integer holds after a computation whose
\* mathematical result is x.
WrapInt(w, x) ==
    LET q == 2 ^ (w - 2)
    IN  IF -q <= x /\ x < q THEN x
        ELSE LET m == x % (4 * q)
             IN  IF m >= 2 * q THEN m - 4 * q ELSE m

\* Width of int on the supported targets.
IntBits == 32

\* ---------------------------------------------------------------- geometry
\* gvt< 3 >: a cube shape and a fragment shape.
gvt(cube, frag) == [cube |-> cube, frag |-> frag]

fragment_count(g, d) == (g.cube[d + 1] + g.frag[d + 1] - 1) \div g.frag[d + 1]

frag_id(g, p) == [k \in 1..3 |-> p[k] \div g.frag[k]]

to_local(g, p) == [k \in 1..3 |-> p[k] % g.frag[k]]

\* fragment_shape().index(dim, idx): the index inside the fragment.
frag_index(g, d, x) == x % g.frag[d + 1]

\* All fragment IDs of the face with axis d pinned, in lexicographic order.
slice(g, d, idx) ==
    LET pin   == idx \div g.frag[d + 1]
        lo    == IF d = 0 THEN 1 ELSE 0
        hi    == IF d = 2 THEN 1 ELSE 2
        nlo   == fragment_count(g, lo)
        nhi   == fragment_count(g, hi)
        at(n) == [k \in 1..3 |->
                    IF k = d + 1 THEN pin
                    ELSE IF k = lo + 1 THEN (n - 1) \div nhi
                    ELSE (n - 1) % nhi]
    IN  [n \in 1..(nlo * nhi) |-> at(n)]

\* ---------------------------------------------------------------- manifest
\* The line numbers of an axis of extent n: the k-th line of axis d.
Lines(d, n) == [k \in 1..n |-> 10 * (d + 1) + (k - 1)]

LineNumbers(cube) == [d \in 1..3 |-> Lines(d - 1, cube[d])]

\* An attribute descriptor of the manifest: a depth-1 surface with its own
\* line numbers and its own fragment shape.
AttrDesc(type, cube, frag) ==
    [type |-> type, line_numbers |-> LineNumbers(cube), shape |-> frag]

\* ------------------------------------------------------------------- query
\* The decoded request: what Query::unpack leaves in the query object.
unpack(d) ==
    [ function   |-> d.function,
      manifest   |-> [ line_numbers |-> d.line_numbers,
                       shape        |-> d.shape,
                       attr         |-> d.attr ],
      attributes |-> d.attributes,
      dim        |-> d.dim,
      idx        |-> d.idx,
      dim0s      |-> d.dim0s,
      dim1s      |-> d.dim1s ]

\* geometry(const basic_query&)
geometry_query(q) ==
    gvt([d \in 1..3 |-> Len(q.manifest.line_numbers[d])],
        [d \in 1..3 |-> q.manifest.shape[d]])

\* geometry(const basic_task&)
geometry_task(t) ==
    gvt([d \in 1..3 |-> t.shape_cube[d]], [d \in 1..3 |-> t.shape[d]])

top_cubepoint(xs, ys, i) == <<xs[i + 1], ys[i + 1], 0>>

\* find_desc: the position of the first descriptor of that type, or end().
find_desc(q, attr) ==
    LET hits == {k \in 1..Len(q.manifest.attr) : q.manifest.attr[k].type = attr}
    IN  IF hits = {} THEN Len(q.manifest.attr) + 1
        ELSE CHOOSE k \in hits : \A h \in hits : k <= h

\* append_vector_ids: every ID converted element by element to int.
append_vector_ids(dst, src) ==
    dst \o [n \in 1..Len(src) |-> [k \in 1..Len(src[n]) |-> WrapInt(IntBits, src[n][k])]]

\* ------------------------------------------------------------ slice planner
\* slice_task(query): the task of the data volume.
slice_task(q) ==
    [ attribute  |-> "data",
      shape_cube |-> [d \in 1..3 |-> Len(q.manifest.line_numbers[d])],
      shape      |-> q.manifest.shape,
      dim        |-> q.dim,
      idx        |-> 0,
      ids        |-> <<>> ]

\* slice_task(query, desc): the task of an attribute volume.
slice_task_attr(q, desc) ==
    [ attribute  |-> desc.type,
      shape_cube |-> [d \in 1..3 |-> Len(desc.line_numbers[d])],
      shape      |-> desc.shape,
      dim        |-> q.dim,
      idx        |-> 0,
      ids        |-> <<>> ]

\* The data job with the index of the query taken as the local index.
slice_data_task_global_idx(q) ==
    [slice_task(q) EXCEPT
        !.idx = q.idx,
        !.ids = append_vector_ids(<<>>, slice(geometry_query(q), q.dim, q.idx))]

\* build(slice_query), lines 149-158: the data job.
slice_data_task(q) ==
    LET g == geometry_query(q)
    IN  [slice_task(q) EXCEPT
            !.idx = frag_index(g, q.dim, q.idx),
            !.ids = append_vector_ids(<<>>, slice(g, q.dim, q.idx))]

\* The attribute job planned at the index of the query as it is, not reduced
\* to the attribute's cube.
slice_attr_task_raw_idx(q, desc) ==
    LET task == slice_task_attr(q, desc)
        gvt3 == geometry_task(task)
    IN  [task EXCEPT
            !.idx = frag_index(gvt3, q.dim, q.idx),
            !.ids = append_vector_ids(<<>>, slice(gvt3, q.dim, q.idx))]

\* build(slice_query), lines 169-182: the job of one declared attribute.
slice_attr_task(q, desc) ==
    LET task == slice_task_attr(q, desc)
        gvt3 == geometry_task(task)
        idx  == q.idx % gvt3.cube[q.dim + 1]
    IN  [task EXCEPT
            !.idx = frag_index(gvt3, q.dim, idx),
            !.ids = append_vector_ids(<<>>, slice(gvt3, q.dim, idx))]

\* ---------------------------------------------------------- curtain planner
\* std::lexicographical_compare over two ID vectors.
RECURSIVE lexicographical_compare(_, _)
lexicographical_compare(a, b) ==
    IF b = <<>> THEN FALSE
    ELSE IF a = <<>> THEN TRUE
    ELSE IF a[1] < b[1] THEN TRUE
    ELSE IF b[1] < a[1] THEN FALSE
    ELSE lexicographical_compare(Tail(a), Tail(b))

\* The lambda less of build(curtain_query): a single against a fragment ID.
less(lhs, rhs) == lexicographical_compare(lhs.id, rhs)

\* The lambda equal of build(curtain_query): std::equal over the length of lhs.
equal(lhs, rhs) == \A k \in 1..Len(lhs) : lhs[k] = rhs[k]

\* std::lower_bound(ids.begin(), ids.end(), fid, less): the halving search
\* over [first, first + len).
RECURSIVE lower_bound_search(_, _, _, _)
lower_bound_search(ids, fid, first, len) ==
    IF len <= 0 THEN first
    ELSE LET half == len \div 2
             mid  == first + half
         IN  IF less(ids[mid], fid)
             THEN lower_bound_search(ids, fid, mid + 1, len - half - 1)
             ELSE lower_bound_search(ids, fid, first, half)

lower_bound(ids, fid) == lower_bound_search(ids, fid, 1, Len(ids))

\* vector::insert(itr, x): x placed before position itr.
InsertAt(v, itr, x) == SubSeq(v, 1, itr - 1) \o x \o SubSeq(v, itr, Len(v))

\* curtain_task(query): the task of the data volume.
curtain_task(q) ==
    [ attribute  |-> "data",
      shape_cube |-> [d \in 1..3 |-> Len(q.manifest.line_numbers[d])],
      shape      |-> q.manifest.shape,
      ids        |-> <<>> ]

\* curtain_task(query, desc): the task of an attribute volume.
curtain_task_attr(q, desc) ==
    [ attribute  |-> desc.type,
      shape_cube |-> [d \in 1..3 |-> Len(desc.line_numbers[d])],
      shape      |-> desc.shape,
      ids        |-> <<>> ]

\* The first loop without the test for a column that is there already.
curtain_reserve_always(ids, g, q, i) ==
    LET fid    == frag_id(g, top_cubepoint(q.dim0s, q.dim1s, i))
        column == [z \in 1..fragment_count(g, 2) |->
                     [ id          |-> [fid EXCEPT ![3] = z - 1],
                       coordinates |-> <<>>,
                       offset      |-> i ]]
    IN  InsertAt(ids, lower_bound(ids, fid), column)

\* The first loop with new columns pushed to the back of the bins.
curtain_reserve_back(ids, g, q, i) ==
    LET fid    == frag_id(g, top_cubepoint(q.dim0s, q.dim1s, i))
        itr    == lower_bound(ids, fid)
        column == [z \in 1..fragment_count(g, 2) |->
                     [ id          |-> [fid EXCEPT ![3] = z - 1],
                       coordinates |-> <<>>,
                       offset      |-> i ]]
    IN  IF itr = Len(ids) + 1 \/ ~equal(ids[itr].id, fid)
        THEN ids \o column
        ELSE ids

\* Lines 316-328, one turn of the first loop: the column of zfrags bins of
\* the fragment under point i is inserted unless it is there already.
curtain_reserve(ids, g, q, i) ==
    LET top    == top_cubepoint(q.dim0s, q.dim1s, i)
        fid    == frag_id(g, top)
        zfrags == fragment_count(g, 2)
        itr    == lower_bound(ids, fid)
        column == [z \in 1..zfrags |->
                     [ id          |-> [fid EXCEPT ![3] = z - 1],
                       coordinates |-> <<>>,
                       offset      |-> i ]]
    IN  IF itr = Len(ids) + 1 \/ ~equal(ids[itr].id, fid)
        THEN InsertAt(ids, itr, column)
        ELSE ids

\* The second loop with the coordinate put in front of the earlier ones.
curtain_fill_front(ids, g, q, i) ==
    LET top    == top_cubepoint(q.dim0s, q.dim1s, i)
        fid    == frag_id(g, top)
        lid    == to_local(g, top)
        itr    == lower_bound(ids, fid)
    IN  [k \in 1..Len(ids) |->
            IF itr <= k /\ k < itr + fragment_count(g, 2)
            THEN [ids[k] EXCEPT !.coordinates = << <<lid[1], lid[2]>> >> \o @]
            ELSE ids[k]]

\* Lines 336-343, one turn of the second loop: the local coordinate of point
\* i is pushed to every bin of its column.
curtain_fill(ids, g, q, i) ==
    LET top    == top_cubepoint(q.dim0s, q.dim1s, i)
        fid    == frag_id(g, top)
        lid    == to_local(g, top)
        zfrags == fragment_count(g, 2)
        itr    == lower_bound(ids, fid)
    IN  [n \in 1..Len(ids) |->
            IF itr <= n /\ n < itr + zfrags
            THEN [ids[n] EXCEPT !.coordinates = Append(@, <<lid[1], lid[2]>>)]
            ELSE ids[n]]

\* Lines 364-374, one turn of the attribute loop: point i is put in the bin
\* of its fragment, which is inserted first when missing.
curtain_attr_put(ids, g, q, i) ==
    LET top  == top_cubepoint(q.dim0s, q.dim1s, i)
        fid  == frag_id(g, top)
        lid  == to_local(g, top)
        itr  == lower_bound(ids, fid)
        bin  == [id |-> fid, coordinates |-> <<>>, offset |-> i]
        ids1 == IF itr = Len(ids) + 1 \/ ~equal(ids[itr].id, fid)
                THEN InsertAt(ids, itr, <<bin>>)
                ELSE ids
    IN  [ids1 EXCEPT ![itr].coordinates = Append(@, <<lid[1], lid[2]>>)]

\* ------------------------------------------------------------- attributes
\* The byte order of std::string on the attribute names of the model.
AttrNames == <<"cdp", "cdpx", "cdpy", "gap">>

StrRank(s) == CHOOSE k \in 1..Len(AttrNames) : AttrNames[k] = s

StrLess(a, b) == StrRank(a) < StrRank(b)

\* Lines 96-103: "cdp" stands for the pair cdpx, cdpy.
RECURSIVE expand_cdp(_)
expand_cdp(attrs) ==
    IF attrs = <<>> THEN <<>>
    ELSE (IF Head(attrs) = "cdp" THEN <<"cdpx", "cdpy">> ELSE <<Head(attrs)>>)
         \o expand_cdp(Tail(attrs))

\* std::sort: the ascending arrangement of the elements.
RECURSIVE sort_strings(_)
sort_strings(v) ==
    IF v = <<>> THEN <<>>
    ELSE LET m == CHOOSE k \in 1..Len(v) :
                      \A h \in 1..Len(v) : ~StrLess(v[h], v[k]) /\ (v[h] = v[k] => k <= h)
         IN  <<v[m]>> \o sort_strings(SubSeq(v, 1, m - 1) \o SubSeq(v, m + 1, Len(v)))

\* std::unique + erase: of every run of equal neighbours the first is kept.
RECURSIVE unique(_)
unique(v) ==
    IF Len(v) <= 1 THEN v
    ELSE IF v[1] = v[2] THEN unique(Tail(v))
    ELSE <<v[1]>> \o unique(Tail(v))

\* The attributes expanded and made unique without the sort in between.
normalized_attributes_unsorted(q) == unique(expand_cdp(q.attributes))

\* normalized_attributes, lines 91-112: expand, std::sort, erase(std::unique).
normalized_attributes(q) == unique(sort_strings(expand_cdp(q.attributes)))

\* ------------------------------------------------------------- partitioner
\* task_count with the division rounding down: jobs / task_size.
task_count_x_floor(jobs, task_size) == WrapInt(IntBits, TruncDiv(jobs, task_size))

\* The x of task_count: (jobs + (task_size - 1)) / task_size in int.
task_count_x(jobs, task_size) ==
    WrapInt(IntBits,
            TruncDiv(WrapInt(IntBits, jobs + WrapInt(IntBits, task_size - 1)), task_size))

\* task_count returns x only when it is positive: on x = 0 the assert stops a
\* build with assertions, and x <= 0 throws std::runtime_error.
task_count_fails(jobs, task_size) == task_count_x(jobs, task_size) <= 0

task_count(jobs, task_size) == task_count_x(jobs, task_size)

\* The way a failing task_count ends the process: the assert aborts a build
\* with assertions; without them the exception leaves count_tasks, which is
\* noexcept (true), and std::terminate is called.
task_count_failures(jobs, task_size) ==
    IF task_count_x(jobs, task_size) = 0 THEN {"abort", "terminate"} ELSE {"terminate"}

\* The largest and the smallest value of a w-bit signed integer.
IntMax(w) == 2 ^ (w - 1) - 1

IntMin(w) == -(2 ^ (w - 1))

\* What a build makes of a signed addition that leaves the range of int: the
\* add instruction wraps in two's complement, or the build traps on overflow.
signed_overflow == {"wrap", "trap"}

\* Line 82, jobs + (task_size - 1): the mathematical sum.
task_count_sum(jobs, task_size) == jobs + (task_size - 1)

\* task_count throwing on negative counts only, as its message has it.
task_count_throws_negative(x) == x < 0

\* Line 84: the test that makes task_count throw std::runtime_error.
task_count_throws(x) == x <= 0

\* count_tasks: the accumulated task counts of the outputs from the n-th on.
RECURSIVE count_tasks_from(_, _, _)
count_tasks_from(outputs, task_size, k) ==
    IF k > Len(outputs) THEN 0
    ELSE task_count(Len(outputs[k].ids), task_size)
         + count_tasks_from(outputs, task_size, k + 1)

count_tasks(outputs, task_size) == count_tasks_from(outputs, task_size, 1)

\* The outputs on which task_count fails inside count_tasks.
count_tasks_failing(outputs, task_size) ==
    {k \in 1..Len(outputs) : task_count_fails(Len(outputs[k].ids), task_size)}

\* Output::pack(): the task as one packed record of the taskset.
pack(output) == [record |-> "bundle", task |-> output]

\* taskset::count(): the number of records appended so far.
count(taskset) == Len(taskset)

\* ------------------------------------------------------------------ header
\* The first n entries of the slice index: the extent of every axis, 1 for
\* the queried one (lines 212-218).
slice_index_sizes(q) ==
    [k \in 1..Len(q.manifest.line_numbers) |->
        IF k - 1 # q.dim THEN Len(q.manifest.line_numbers[k]) ELSE 1]

\* The line numbers of the slice index from axis k on (lines 219-229).
RECURSIVE slice_index_lines(_, _)
slice_index_lines(q, k) ==
    IF k > Len(q.manifest.line_numbers) THEN <<>>
    ELSE (IF k - 1 # q.dim THEN q.manifest.line_numbers[k]
          ELSE <<q.manifest.line_numbers[k][q.idx + 1]>>)
         \o slice_index_lines(q, k + 1)

\* Lines 238-265: the shape of data, then of every attribute with its last
\* extent set to 1.
RECURSIVE slice_attr_shapes(_, _, _)
slice_attr_shapes(attrs, ndims, index) ==
    IF attrs = <<>> THEN <<>>
    ELSE <<ndims>> \o SubSeq(index, 1, ndims - 1) \o <<1>>
         \o slice_attr_shapes(Tail(attrs), ndims, index)

\* header(const slice_query&, int ntasks)
header_slice(q, ntasks) ==
    LET ndims == Len(q.manifest.line_numbers)
        index == slice_index_sizes(q) \o slice_index_lines(q, 1)
    IN  [ function   |-> "slice",
          nbundles   |-> ntasks,
          ndims      |-> ndims,
          attributes |-> <<"data">> \o q.attributes,
          index      |-> index,
          shapes     |-> <<ndims>> \o SubSeq(index, 1, ndims)
                         \o slice_attr_shapes(q.attributes, ndims, index) ]

\* The line numbers line_numbers[axis][x] of the points xs (lines 407-408).
curtain_index_lines(q, axis, xs) ==
    [k \in 1..Len(xs) |-> q.manifest.line_numbers[axis + 1][xs[k] + 1]]

\* Lines 419-422: [1, index.front()] for every attribute.
RECURSIVE curtain_attr_shapes(_, _)
curtain_attr_shapes(attrs, index) ==
    IF attrs = <<>> THEN <<>>
    ELSE <<1, index[1]>> \o curtain_attr_shapes(Tail(attrs), index)

\* The curtain header with the shape of data read from the front of the
\* index: index.begin(), index.begin() + 2.
header_curtain_shape_front(q, ntasks) ==
    LET mdims == q.manifest.line_numbers
        index == <<Len(q.dim0s), Len(q.dim1s), Len(mdims[Len(mdims)])>>
                 \o curtain_index_lines(q, 0, q.dim0s)
                 \o curtain_index_lines(q, 1, q.dim1s)
                 \o mdims[Len(mdims)]
    IN  [ function   |-> "curtain",
          nbundles   |-> ntasks,
          ndims      |-> Len(mdims),
          attributes |-> <<"data">> \o q.attributes,
          index      |-> index,
          shapes     |-> <<2>> \o SubSeq(index, 1, 2)
                         \o curtain_attr_shapes(q.attributes, index) ]

\* header(const curtain_query&, int ntasks)
header_curtain(q, ntasks) ==
    LET mdims == q.manifest.line_numbers
        index == <<Len(q.dim0s), Len(q.dim1s), Len(mdims[Len(mdims)])>>
                 \o curtain_index_lines(q, 0, q.dim0s)
                 \o curtain_index_lines(q, 1, q.dim1s)
                 \o mdims[Len(mdims)]
    IN  [ function   |-> "curtain",
          nbundles   |-> ntasks,
          ndims      |-> Len(mdims),
          attributes |-> <<"data">> \o q.attributes,
          index      |-> index,
          shapes     |-> <<2>> \o SubSeq(index, 2, 3)
                         \o curtain_attr_shapes(q.attributes, index) ]

header(q, ntasks) ==
    IF q.function = "slice" THEN header_slice(q, ntasks) ELSE header_curtain(q, ntasks)

\* pack_with_envelope: array(2), the header, and the tag of an array of
\* nbundles elements.
pack_with_envelope(head) ==
    [record |-> "envelope", header |-> head, slots |-> head.nbundles]

\* ------------------------------------------------------------------ inputs
FragShapes == {<<f0, f1, f2>> : f0 \in 1..MaxFrag, f1 \in 1..MaxFrag, f2 \in 1..MaxFrag}

\* The attribute lists of the requests, each with the attribute types the
\* manifest declares: none asked; cdp asked and both halves declared (in
\* another order); a list with a repeat and an undeclared name.
NoAttributes == [attributes |-> <<>>, declared |-> <<>>]

CdpAttributes == [attributes |-> <<"cdp">>, declared |-> <<"cdpy", "cdpx">>]

GapAttributes == [attributes |-> <<"gap", "cdpx", "cdpx">>, declared |-> <<"cdpx">>]

AttrCases == {NoAttributes, CdpAttributes, GapAttributes}

\* The attribute surfaces of a cube: depth 1, the same lines in x and y, and
\* fragments of their own (the cube's x and y extents swapped).
AttrDescs(types, cube, frag) ==
    [k \in 1..Len(types) |->
        AttrDesc(types[k], <<cube[1], cube[2], 1>>, <<frag[2], frag[1], 1>>)]

Document(version, top, function, cube, frag, ac, dim, idx, points) ==
    [ version      |-> version,
      top_version  |-> top,
      function     |-> function,
      line_numbers |-> LineNumbers(cube),
      shape        |-> frag,
      attr         |-> AttrDescs(ac.declared, cube, frag),
      attributes   |-> ac.attributes,
      dim          |-> dim,
      idx          |-> idx,
      dim0s        |-> [k \in 1..Len(points) |-> points[k][1]],
      dim1s        |-> [k \in 1..Len(points) |-> points[k][2]] ]

\* The cube with MaxCube fragments of the largest extent along axis dim, and
\* the extents lo and hi on the other two axes, in axis order.
SliceCube(dim, lo, hi) ==
    IF dim = 0 THEN <<MaxCube * MaxFrag, lo, hi>>
    ELSE IF dim = 1 THEN <<lo, MaxCube * MaxFrag, hi>>
    ELSE <<lo, hi, MaxCube * MaxFrag>>

\* Slice requests with attributes: every axis, every index along it, every
\* extent of the face and every fragment shape.
SliceDocs ==
    { Document(1, "absent", "slice", SliceCube(dim, lo, hi), frag, ac, dim, idx, <<>>) :
        dim \in 0..2, lo \in 0..MaxCube, hi \in 0..MaxCube, frag \in FragShapes,
        ac \in {CdpAttributes, GapAttributes}, idx \in 0..(MaxCube * MaxFrag - 1) }

\* The sequences of at most MaxPoints points of the x-y grid.
PointSeqs ==
    UNION {[1..len -> (0..(MaxCube - 1)) \X (0..(MaxCube - 1))] : len \in 0..MaxPoints}

\* Curtain requests: points anywhere on a cube of full extent, every x-y
\* fragment shape, the depth in fragments of one sample, and cdp asked of a
\* manifest that declares one half of it.
HalfCdpAttributes == [attributes |-> <<"cdp">>, declared |-> <<"cdpx">>]

CurtainDocs ==
    { Document(1, "absent", "curtain", <<MaxCube, MaxCube, MaxCube>>, <<f0, f1, 1>>,
               HalfCdpAttributes, 0, 0, ps) :
        f0 \in 1..MaxFrag, f1 \in 1..MaxFrag, ps \in PointSeqs }

\* The requests that are planned with every task size: the first slice of
\* every axis of the cubes of up to one line more, in fragments of one sample,
\* and curtains along the x axis.
SmallSliceDocs ==
    { d \in { Document(1, "absent", "slice", <<c0, c1, c2>>, <<1, 1, 1>>, ac, dim, 0, <<>>) :
                c0 \in 0..(MaxCube + 1), c1 \in 0..(MaxCube + 1), c2 \in 0..(MaxCube + 1),
                ac \in AttrCases, dim \in 0..2 } :
        d.idx < Len(d.line_numbers[d.dim + 1]) }

SmallCurtainDocs ==
    { Document(1, "absent", "curtain", <<MaxCube, 1, c2>>, <<1, 1, f2>>, ac, 0, 0, ps) :
        c2 \in 0..MaxCube, f2 \in {1, MaxFrag}, ac \in AttrCases,
        ps \in UNION {[1..len -> (0..(MaxCube - 1)) \X {0}] : len \in 0..MaxPoints} }

\* One request body for the documents the driver turns down before decoding.
PlainDoc(version, top, function) ==
    Document(version, top, function, <<MaxCube, MaxCube, MaxCube>>, <<1, 1, 1>>,
             NoAttributes, 0, 0, <<>>)

Functions == {"slice", "curtain", "horizon", ""}

OtherDocs ==
    { PlainDoc(version, top, function) :
        version \in {0, 1, 2}, top \in {"absent", "number", "text"}, function \in Functions }

TaskSizes == (-1)..MaxTaskSize

\* ------------------------------------------------------------------- state
VARIABLES
    doc,        \* mkschedule's doc: the request document
    task_size,  \* mkschedule's task_size
    pc,         \* the statement the call is at
    in,         \* schedule's in: the query
    tasks,      \* build's tasks
    atask,      \* build(curtain_query)'s atask
    a,          \* build's position in query.attributes
    i,          \* build(curtain_query)'s loop counter i
    fetch,      \* schedule's fetch, the vector partition works on in place
    j,          \* partition's position in outputs
    ids,        \* partition's ids, the copy of output.ids
    ntasks,     \* partition's ntasks
    fst,        \* partition's fst, as the number of ids before it
    n,          \* partition's loop counter i
    sched,      \* the taskset: partitioned, then schedule's sched
    result,     \* what mkschedule hands to its caller
    tc,         \* a call of task_count on its own: its arguments, x and outcome
    st          \* a run of stitch: bin's locals and main's loop over the bins

\* The variables of a run of mkschedule.
planner == <<doc, task_size, pc, in, tasks, atask, a, i, fetch, j, ids, ntasks, fst, n,
             sched, result>>

vars == <<planner, tc, st>>

NoTask == [attribute |-> "", shape_cube |-> <<0, 0, 0>>, shape |-> <<1, 1, 1>>, ids |-> <<>>]

NoResult == [kind |-> "none", what |-> ""]

\* No call of task_count on its own, and no run of stitch.
NoCall == [pc |-> "none"]

NoStitch == [pc |-> "none"]

\* A default-constructed query, before unpack.
NoQuery ==
    [ function   |-> "",
      manifest   |-> [line_numbers |-> <<>>, shape |-> <<>>, attr |-> <<>>],
      attributes |-> <<>>,
      dim        |-> 0,
      idx        |-> 0,
      dim0s      |-> <<>>,
      dim1s      |-> <<>> ]

Init ==
    /\ \/ doc \in SliceDocs \cup CurtainDocs /\ task_size = MaxTaskSize
       \/ doc \in SmallSliceDocs \cup SmallCurtainDocs \cup OtherDocs /\ task_size \in TaskSizes
    /\ pc = "mkschedule"
    /\ in = NoQuery
    /\ tasks = <<>>
    /\ atask = NoTask
    /\ a = 0
    /\ i = 0
    /\ fetch = <<>>
    /\ j = 0
    /\ ids = <<>>
    /\ ntasks = 0
    /\ fst = 0
    /\ n = 0
    /\ sched = <<>>
    /\ result = NoResult
    /\ tc = NoCall
    /\ st = NoStitch

\* An exception or a process stop reaches the caller: nothing is returned.
Fail(kind, what) ==
    /\ result' = [kind |-> kind, what |-> what]
    /\ pc' = "done"

\* ------------------------------------------------------------------ driver
\* mkschedule, lines 573-588: the format-version gate.  The message of the
\* bad_document is formatted from document.at("format-version"), the key of
\* the document itself and not of its manifest: at() throws out_of_range for
\* a key that is not there, and the conversion to int throws type_error for a
\* value that is no number.
format_version_error(d) ==
    IF d.top_version = "absent" THEN "json::out_of_range"
    ELSE IF d.top_version = "text" THEN "json::type_error"
    ELSE "bad_document"

VersionGate ==
    /\ pc = "mkschedule"
    /\ IF doc.version # 1
       THEN Fail(format_version_error(doc), "format-version")
       ELSE pc' = "dispatch" /\ UNCHANGED result
    /\ UNCHANGED <<tc, st, doc, task_size, in, tasks, atask, a, i, fetch, j, ids, ntasks, fst, n,
                   sched>>

\* The exception mkschedule throws for a function without a handler.
no_handler_error == "std::logic_error"

\* mkschedule, lines 590-599: the dispatch on the function.
Dispatch ==
    /\ pc = "dispatch"
    /\ IF doc.function \in {"slice", "curtain"}
       THEN pc' = "schedule" /\ UNCHANGED result
       ELSE Fail(no_handler_error, "No handler for function")
    /\ UNCHANGED <<tc, st, doc, task_size, in, tasks, atask, a, i, fetch, j, ids, ntasks, fst, n,
                   sched>>

\* schedule, lines 560-561: decode the query and normalize its attributes.
Unpack ==
    /\ pc = "schedule"
    /\ in' = [unpack(doc) EXCEPT !.attributes = normalized_attributes(unpack(doc))]
    /\ pc' = "build"
    /\ UNCHANGED <<tc, st, doc, task_size, tasks, atask, a, i, fetch, j, ids, ntasks, fst, n,
                   sched, result>>

\* ----------------------------------------------------------- build (slice)
\* build(slice_query), lines 149-158.
SliceData ==
    /\ pc = "build"
    /\ in.function = "slice"
    /\ tasks' = <<slice_data_task(in)>>
    /\ a' = 0
    /\ pc' = "slice_attr"
    /\ UNCHANGED <<tc, st, doc, task_size, in, atask, i, fetch, j, ids, ntasks, fst, n, sched,
                   result>>

\* build(slice_query), lines 160-184: one attribute.
SliceAttr ==
    /\ pc = "slice_attr"
    /\ a < Len(in.attributes)
    /\ LET itr == find_desc(in, in.attributes[a + 1])
       IN  tasks' = IF itr = Len(in.manifest.attr) + 1 THEN tasks
                    ELSE Append(tasks, slice_attr_task(in, in.manifest.attr[itr]))
    /\ a' = a + 1
    /\ UNCHANGED <<tc, st, doc, task_size, pc, in, atask, i, fetch, j, ids, ntasks, fst, n, sched,
                   result>>

\* --------------------------------------------------------- build (curtain)
\* build(curtain_query), lines 283-290.
CurtainData ==
    /\ pc = "build"
    /\ in.function = "curtain"
    /\ tasks' = <<curtain_task(in)>>
    /\ i' = 0
    /\ pc' = "curtain_reserve"
    /\ UNCHANGED <<tc, st, doc, task_size, in, atask, a, fetch, j, ids, ntasks, fst, n, sched,
                   result>>

\* Lines 315-329: one turn of the loop that inserts the bins.
CurtainReserve ==
    /\ pc = "curtain_reserve"
    /\ i < Len(in.dim0s)
    /\ tasks' = [tasks EXCEPT ![1].ids = curtain_reserve(@, geometry_query(in), in, i)]
    /\ i' = i + 1
    /\ UNCHANGED <<tc, st, doc, task_size, pc, in, atask, a, fetch, j, ids, ntasks, fst, n, sched,
                   result>>

CurtainReserved ==
    /\ pc = "curtain_reserve"
    /\ i = Len(in.dim0s)
    /\ i' = 0
    /\ pc' = "curtain_fill"
    /\ UNCHANGED <<tc, st, doc, task_size, in, tasks, atask, a, fetch, j, ids, ntasks, fst, n,
                   sched, result>>

\* Lines 335-344: one turn of the loop that fills the bins.
CurtainFill ==
    /\ pc = "curtain_fill"
    /\ i < Len(in.dim0s)
    /\ tasks' = [tasks EXCEPT ![1].ids = curtain_fill(@, geometry_query(in), in, i)]
    /\ i' = i + 1
    /\ UNCHANGED <<tc, st, doc, task_size, pc, in, atask, a, fetch, j, ids, ntasks, fst, n, sched,
                   result>>

CurtainFilled ==
    /\ pc = "curtain_fill"
    /\ i = Len(in.dim0s)
    /\ a' = 0
    /\ pc' = "curtain_attr"
    /\ UNCHANGED <<tc, st, doc, task_size, in, tasks, atask, i, fetch, j, ids, ntasks, fst, n,
                   sched, result>>

\* Lines 346-361: the next attribute, skipped when the manifest has none of
\* that type.
CurtainAttr ==
    /\ pc = "curtain_attr"
    /\ a < Len(in.attributes)
    /\ LET itr == find_desc(in, in.attributes[a + 1])
       IN  IF itr = Len(in.manifest.attr) + 1
           THEN a' = a + 1 /\ UNCHANGED <<pc, atask, i>>
           ELSE /\ atask' = curtain_task_attr(in, in.manifest.attr[itr])
                /\ i' = 0
                /\ pc' = "curtain_attr_put"
                /\ UNCHANGED a
    /\ UNCHANGED <<tc, st, doc, task_size, in, tasks, fetch, j, ids, ntasks, fst, n, sched, result>>

\* Lines 363-375: one point of the attribute's loop.
CurtainAttrPut ==
    /\ pc = "curtain_attr_put"
    /\ i < Len(in.dim0s)
    /\ atask' = [atask EXCEPT !.ids = curtain_attr_put(@, geometry_task(atask), in, i)]
    /\ i' = i + 1
    /\ UNCHANGED <<tc, st, doc, task_size, pc, in, tasks, a, fetch, j, ids, ntasks, fst, n, sched,
                   result>>

\* Line 377: the attribute's task joins the tasks.
CurtainAttrPush ==
    /\ pc = "curtain_attr_put"
    /\ i = Len(in.dim0s)
    /\ tasks' = Append(tasks, atask)
    /\ a' = a + 1
    /\ pc' = "curtain_attr"
    /\ UNCHANGED <<tc, st, doc, task_size, in, atask, i, fetch, j, ids, ntasks, fst, n, sched,
                   result>>

\* schedule, line 562: build returns its tasks.
BuildReturn ==
    /\ pc \in {"slice_attr", "curtain_attr"}
    /\ a = Len(in.attributes)
    /\ fetch' = tasks
    /\ pc' = "partition"
    /\ UNCHANGED <<tc, st, doc, task_size, in, tasks, atask, a, i, j, ids, ntasks, fst, n, sched,
                   result>>

\* --------------------------------------------------------------- partition
\* partition throwing what task_count throws.
task_size_error_runtime(size) == "std::runtime_error"

\* Lines 453-456: what partition throws for a task_size below 1.
task_size_error(size) == "std::logic_error"

\* The window one id short: fst + task_size - 1.
window_last_short(first, size, lst) == Min(first + size - 1, lst)

\* Line 471: the end of the window that starts at fst.
window_last(first, size, lst) == Min(first + size, lst)

\* partition, lines 453-459: the check of task_size, then count_tasks for
\* the reserve.
PartitionEnter ==
    /\ pc = "partition"
    /\ IF task_size < 1
       THEN /\ Fail(task_size_error(task_size), "task_size < 1")
            /\ UNCHANGED <<j, sched>>
       ELSE LET failing == count_tasks_failing(fetch, task_size)
            IN  IF failing # {}
                THEN LET k == CHOOSE k \in failing : \A h \in failing : k <= h
                     IN  /\ \E kind \in task_count_failures(Len(fetch[k].ids), task_size) :
                                Fail(kind, "task-count")
                         /\ UNCHANGED <<j, sched>>
                ELSE /\ sched' = <<>>
                     /\ j' = 0
                     /\ pc' = "partition_job"
                     /\ UNCHANGED result
    /\ UNCHANGED <<tc, st, doc, task_size, in, tasks, atask, a, i, fetch, ids, ntasks, fst, n>>

\* Lines 461-468: the next output, its ids copied and its tasks counted.
PartitionJob ==
    /\ pc = "partition_job"
    /\ j < Len(fetch)
    /\ ids' = fetch[j + 1].ids
    /\ IF task_count_fails(Len(fetch[j + 1].ids), task_size)
       THEN /\ \E kind \in {"abort", "std::runtime_error"} :
                    /\ kind = "abort" => task_count_x(Len(fetch[j + 1].ids), task_size) = 0
                    /\ Fail(kind, "task-count")
            /\ UNCHANGED <<ntasks, fst, n>>
       ELSE /\ ntasks' = task_count(Len(fetch[j + 1].ids), task_size)
            /\ fst' = 0
            /\ n' = 0
            /\ pc' = "partition_task"
            /\ UNCHANGED result
    /\ UNCHANGED <<tc, st, doc, task_size, in, tasks, atask, a, i, fetch, j, sched>>

\* Lines 470-475: one window of the ids is assigned to the output, and the
\* output packed and appended.
PartitionTask ==
    /\ pc = "partition_task"
    /\ n < ntasks
    /\ LET last   == window_last(fst, task_size, Len(ids))
           output == [fetch[j + 1] EXCEPT !.ids = SubSeq(ids, fst + 1, last)]
       IN  /\ fetch' = [fetch EXCEPT ![j + 1] = output]
           /\ fst' = last
           /\ sched' = Append(sched, pack(output))
    /\ n' = n + 1
    /\ UNCHANGED <<tc, st, doc, task_size, pc, in, tasks, atask, a, i, j, ids, ntasks, result>>

\* The end of the inner loop: on to the next output.
PartitionNext ==
    /\ pc = "partition_task"
    /\ n = ntasks
    /\ j' = j + 1
    /\ pc' = "partition_job"
    /\ UNCHANGED <<tc, st, doc, task_size, in, tasks, atask, a, i, fetch, ids, ntasks, fst, n,
                   sched, result>>

\* partition returns; schedule, lines 564-567: the header is made for the
\* count of the taskset and appended in its envelope, and the taskset returned.
Finish ==
    /\ pc = "partition_job"
    /\ j = Len(fetch)
    /\ LET head == header(in, WrapInt(IntBits, count(sched)))
       IN  sched' = Append(sched, pack_with_envelope(head))
    /\ result' = [kind |-> "taskset", what |-> ""]
    /\ pc' = "done"
    /\ UNCHANGED <<tc, st, doc, task_size, in, tasks, atask, a, i, fetch, j, ids, ntasks, fst, n>>

Next ==
    \/ VersionGate
    \/ Dispatch
    \/ Unpack
    \/ SliceData
    \/ SliceAttr
    \/ CurtainData
    \/ CurtainReserve
    \/ CurtainReserved
    \/ CurtainFill
    \/ CurtainFilled
    \/ CurtainAttr
    \/ CurtainAttrPut
    \/ CurtainAttrPush
    \/ BuildReturn
    \/ PartitionEnter
    \/ PartitionJob
    \/ PartitionTask
    \/ PartitionNext
    \/ Finish

Spec == Init /\ [][Next]_vars

\* ------------------------------------------------- attribute-list requests
\* Every attribute list of at most MaxAttrs names.
AttrLists ==
    UNION {[1..len -> {AttrNames[k] : k \in 1..Len(AttrNames)}] : len \in 0..MaxAttrs}

\* Slice requests on a cube of one sample that declares cdpy and cdpx, one
\* for every attribute list.
AttributeDocs ==
    { Document(1, "absent", "slice", <<1, 1, 1>>, <<1, 1, 1>>,
               [attributes |-> attrs, declared |-> <<"cdpy", "cdpx">>], 0, 0, <<>>) :
        attrs \in AttrLists }

InitAttributes ==
    /\ doc \in AttributeDocs
    /\ task_size \in 1..MaxTaskSize
    /\ pc = "mkschedule"
    /\ in = NoQuery
    /\ tasks = <<>>
    /\ atask = NoTask
    /\ a = 0
    /\ i = 0
    /\ fetch = <<>>
    /\ j = 0
    /\ ids = <<>>
    /\ ntasks = 0
    /\ fst = 0
    /\ n = 0
    /\ sched = <<>>
    /\ result = NoResult
    /\ tc = NoCall
    /\ st = NoStitch

\* mkschedule on a slice request: the steps of the slice planner.
NextAttributes ==
    \/ VersionGate
    \/ Dispatch
    \/ Unpack
    \/ SliceData
    \/ SliceAttr
    \/ BuildReturn
    \/ PartitionEnter
    \/ PartitionJob
    \/ PartitionTask
    \/ PartitionNext
    \/ Finish

SpecAttributes == InitAttributes /\ [][NextAttributes]_vars

\* ------------------------------------------------------ task_count, w bits
Widths == 3..MaxWidth

\* The calls: every width, jobs from 0 and task_size from 1 (partition has
\* turned a smaller one down) to the largest int.
InitTaskCount ==
    /\ \E w \in Widths : \E jobs \in 0..IntMax(w) : \E size \in 1..IntMax(w) :
           tc = [ pc        |-> "divide",
                  width     |-> w,
                  jobs      |-> jobs,
                  task_size |-> size,
                  x         |-> 0,
                  result    |-> "none" ]
    /\ st = NoStitch
    /\ doc = PlainDoc(1, "absent", "")
    /\ task_size = 1
    /\ pc = "done"
    /\ in = NoQuery
    /\ tasks = <<>>
    /\ atask = NoTask
    /\ a = 0
    /\ i = 0
    /\ fetch = <<>>
    /\ j = 0
    /\ ids = <<>>
    /\ ntasks = 0
    /\ fst = 0
    /\ n = 0
    /\ sched = <<>>
    /\ result = NoResult

\* Line 82: x = (jobs + (task_size - 1)) / task_size in w-bit int.
TaskCountDivide ==
    /\ tc.pc = "divide"
    /\ LET sum == task_count_sum(tc.jobs, tc.task_size)
       IN  IF IntMin(tc.width) <= sum /\ sum <= IntMax(tc.width)
           THEN tc' = [tc EXCEPT !.x = TruncDiv(sum, tc.task_size), !.pc = "assert"]
           ELSE \E outcome \in signed_overflow :
                    IF outcome = "wrap"
                    THEN tc' = [tc EXCEPT
                                   !.x = TruncDiv(WrapInt(tc.width, sum), tc.task_size),
                                   !.pc = "assert"]
                    ELSE tc' = [tc EXCEPT !.result = "trap", !.pc = "done"]
    /\ UNCHANGED <<planner, st>>

\* Line 83: assert(x != 0), compiled in or, with NDEBUG, compiled out.
TaskCountAssert ==
    /\ tc.pc = "assert"
    /\ \E ndebug \in BOOLEAN :
           IF tc.x = 0 /\ ~ndebug
           THEN tc' = [tc EXCEPT !.result = "abort", !.pc = "done"]
           ELSE tc' = [tc EXCEPT !.pc = "test"]
    /\ UNCHANGED <<planner, st>>

\* Lines 84-88: throw on x <= 0, else return x.
TaskCountReturn ==
    /\ tc.pc = "test"
    /\ tc' = [tc EXCEPT
                 !.result = IF task_count_throws(tc.x) THEN "std::runtime_error"
                            ELSE "returned",
                 !.pc = "done"]
    /\ UNCHANGED <<planner, st>>

NextTaskCount ==
    \/ TaskCountDivide
    \/ TaskCountAssert
    \/ TaskCountReturn

SpecTaskCount == InitTaskCount /\ [][NextTaskCount]_vars

\* ------------------------------------------------------------------ stitch
\* sc::global_to_root: the fragment a point is in.
global_to_root(p, fragment_size) == [k \in 1..3 |-> p[k] \div fragment_size[k]]

\* sc::global_to_local: the point inside its fragment.
global_to_local(p, fragment_size) == [k \in 1..3 |-> p[k] % fragment_size[k]]

\* sc::point_to_offset: the offset of a local point in its fragment.
point_to_offset(local, fragment_size) ==
    (local[1] * fragment_size[2] + local[2]) * fragment_size[3] + local[3]

\* bin, lines 94-99: the (root, pos) pair of every point.
bin_points(xs, fragment_size) ==
    [k \in 1..Len(xs) |->
        [ first  |-> global_to_root(xs[k], fragment_size),
          second |-> point_to_offset(global_to_local(xs[k], fragment_size),
                                     fragment_size) ]]

\* operator< of std::pair< sc::point, std::size_t >.
key_less(x, y) ==
    \/ \E k \in 1..3 : x.first[k] < y.first[k] /\ \A h \in 1..(k - 1) : x.first[h] = y.first[h]
    \/ x.first = y.first /\ x.second < y.second

\* Line 101, std::sort: the ascending arrangement of the pairs.
RECURSIVE sort_keys(_)
sort_keys(v) ==
    IF v = <<>> THEN <<>>
    ELSE LET m == CHOOSE k \in 1..Len(v) : \A h \in 1..Len(v) : ~key_less(v[h], v[k])
         IN  <<v[m]>> \o sort_keys(SubSeq(v, 1, m - 1) \o SubSeq(v, m + 1, Len(v)))

\* Line 199: the loop runs while i < bins.itrs.size().
main_loop_end(bins) == Len(bins.itrs)

\* bins::at reads itrs[i], itrs[i + 1] and keys[i] inside the vectors.
at_in_bounds(bins, m) == m + 1 < Len(bins.itrs) /\ m < Len(bins.keys)

\* bins::at, lines 77-83: first and last as offsets into data.
bins_at(bins, m) ==
    [key |-> bins.keys[m + 1], first |-> bins.itrs[m + 1], last |-> bins.itrs[m + 2]]

\* What a read past the end of a vector gives: the process stops on it, or
\* goes on with whatever is in the memory there.
read_past_end == {"crash", "indeterminate"}

\* The points of the surface and the sequences of at most MaxSurface of them.
SurfacePoints == {<<x, y, 0>> : x \in 0..MaxCube, y \in 0..1}

Surfaces == UNION {[1..len -> SurfacePoints] : len \in 0..MaxSurface}

NoBins == [keys |-> <<>>, itrs |-> <<>>, data |-> <<>>]

NoBin == [key |-> <<>>, first |-> 0, last |-> 0]

\* main up to line 195: the manifest and the surface are read.
InitStitch ==
    /\ \E xs \in Surfaces :
           st = [ pc            |-> "bin",
                  xs            |-> xs,
                  fragment_size |-> <<MaxFrag, MaxFrag, 1>>,
                  points        |-> <<>>,
                  ret           |-> NoBins,
                  prev          |-> <<>>,
                  i             |-> 0,
                  p             |-> 0,
                  todo          |-> {},
                  at            |-> -1,
                  bin           |-> NoBin,
                  outcome       |-> "none" ]
    /\ tc = NoCall
    /\ doc = PlainDoc(1, "absent", "")
    /\ task_size = 1
    /\ pc = "done"
    /\ in = NoQuery
    /\ tasks = <<>>
    /\ atask = NoTask
    /\ a = 0
    /\ i = 0
    /\ fetch = <<>>
    /\ j = 0
    /\ ids = <<>>
    /\ ntasks = 0
    /\ fst = 0
    /\ n = 0
    /\ sched = <<>>
    /\ result = NoResult

\* bin, lines 90-106: the pairs, sorted; data resized; an empty surface
\* returns at once, into main's loop.
BinSort ==
    /\ st.pc = "bin"
    /\ LET points == sort_keys(bin_points(st.xs, st.fragment_size))
           ret    == [NoBins EXCEPT !.data = [k \in 1..Len(points) |-> 0]]
       IN  IF st.xs = <<>>
           THEN st' = [st EXCEPT !.points = points, !.ret = ret, !.pc = "main",
                                 !.todo = 0..(main_loop_end(ret) - 1)]
           ELSE st' = [st EXCEPT !.points = points, !.ret = ret, !.pc = "bin_first"]
    /\ UNCHANGED <<planner, tc>>

\* bin, lines 108-114: data is filled, and the first bin starts at 0.
BinFirst ==
    /\ st.pc = "bin_first"
    /\ st' = [st EXCEPT
                 !.ret = [ keys |-> <<st.points[1].first>>,
                           itrs |-> <<0>>,
                           data |-> [k \in 1..Len(st.points) |-> st.points[k].second] ],
                 !.prev = st.points[1].first,
                 !.i = 0,
                 !.p = 1,
                 !.pc = "bin_loop"]
    /\ UNCHANGED <<planner, tc>>

\* bin, lines 115-123: one point of the loop over points.
BinStep ==
    /\ st.pc = "bin_loop"
    /\ st.p <= Len(st.points)
    /\ LET first == st.points[st.p].first
       IN  IF first = st.prev
           THEN st' = [st EXCEPT !.i = st.i + 1, !.p = st.p + 1]
           ELSE st' = [st EXCEPT
                          !.i = st.i + 1,
                          !.p = st.p + 1,
                          !.prev = first,
                          !.ret.itrs = Append(@, (st.i + 1) - 1),
                          !.ret.keys = Append(@, first)]
    /\ UNCHANGED <<planner, tc>>

\* bin, lines 125-127, and main, line 199: the last boundary is pushed, bin
\* returns, and the parallel loop has its iterations to run.
BinReturn ==
    /\ st.pc = "bin_loop"
    /\ st.p > Len(st.points)
    /\ LET ret == [st.ret EXCEPT !.itrs = Append(@, Len(st.points))]
       IN  st' = [st EXCEPT !.ret = ret, !.pc = "main",
                            !.todo = 0..(main_loop_end(ret) - 1)]
    /\ UNCHANGED <<planner, tc>>

\* main, lines 199-225: one iteration of the parallel loop, in any order: the
\* bin is looked up with bins.at(i) and its offsets are read.
MainAt ==
    /\ st.pc = "main"
    /\ \E m \in st.todo :
           IF at_in_bounds(st.ret, m)
           THEN st' = [st EXCEPT !.at = m, !.bin = bins_at(st.ret, m),
                                 !.todo = @ \ {m}]
           ELSE \E read \in read_past_end :
                    IF read = "crash"
                    THEN st' = [st EXCEPT !.at = m, !.outcome = "crash", !.pc = "done"]
                    ELSE st' = [st EXCEPT
                                   !.at = m,
                                   !.bin = [key |-> "indeterminate",
                                            first |-> st.ret.itrs[m + 1],
                                            last |-> "indeterminate"],
                                   !.outcome = "indeterminate",
                                   !.todo = @ \ {m}]
    /\ UNCHANGED <<planner, tc>>

\* main, lines 225-248: the loop is over.
MainEnd ==
    /\ st.pc = "main"
    /\ st.todo = {}
    /\ st' = [st EXCEPT !.pc = "done"]
    /\ UNCHANGED <<planner, tc>>

NextStitch ==
    \/ BinSort
    \/ BinFirst
    \/ BinStep
    \/ BinReturn
    \/ MainAt
    \/ MainEnd

SpecStitch == InitStitch /\ [][NextStitch]_vars

\* ------------------------------------------------------------------ claims
\* The request as the caller wrote it.
CubeOf(d) == [k \in 1..3 |-> Len(d.line_numbers[k])]

CeilDiv(x, y) == CHOOSE q \in 0..x : q * y >= x /\ (q = 0 \/ (q - 1) * y < x)

RECURSIVE SumOver(_, _)
SumOver(f, k) == IF k = 0 THEN 0 ELSE f[k] + SumOver(f, k - 1)

RECURSIVE Concat(_, _)
Concat(f, k) == IF k = 0 THEN <<>> ELSE Concat(f, k - 1) \o f[k]

\* a comes before b in the lexicographic order of triples.
LexBefore(x, y) ==
    \E k \in 1..3 : x[k] < y[k] /\ \A h \in 1..(k - 1) : x[h] = y[h]

\* The fragment ID of an entry of a job's ids: the entry itself in a slice
\* job, its id in a curtain job.
IdOf(d, entry) == IF d.function = "slice" THEN entry ELSE entry.id

StrictlySorted(d, v) ==
    \A k \in 1..(Len(v) - 1) : LexBefore(IdOf(d, v[k]), IdOf(d, v[k + 1]))

Returned == pc = "done" /\ result.kind = "taskset"

\* C1: in every taskset schedule returns the header envelope is the last
\* record and all records before it are bundles; the header's nbundles is the
\* number of those bundles, which is the sum over the jobs build returned of
\* ceil(|ids| / task_size).
C1_BundleCount ==
    Returned =>
        LET last == sched[Len(sched)]
        IN  /\ Len(sched) >= 1
            /\ last.record = "envelope"
            /\ \A k \in 1..(Len(sched) - 1) : sched[k].record = "bundle"
            /\ last.header.nbundles = Len(sched) - 1
            /\ last.slots = Len(sched) - 1
            /\ Len(sched) - 1 =
                 SumOver([k \in 1..Len(tasks) |-> CeilDiv(Len(tasks[k].ids), task_size)],
                         Len(tasks))

\* A returned plan of several jobs, one of them with more ids than a task
\* holds and a last bundle that is not full.
C1_Witness ==
    /\ Returned
    /\ Len(tasks) >= 2
    /\ \E k \in 1..Len(tasks) :
           Len(tasks[k].ids) > task_size /\ Len(tasks[k].ids) % task_size # 0

\* The bundles partition has emitted for the output it is at: the last n
\* records of the taskset.
Windows == [k \in 1..n |-> sched[Len(sched) - n + k].task.ids]

\* C2: the windows emitted for a job are, in order, consecutive pieces of the
\* ids build gave the job: each holds between 1 and task_size ids, all but the
\* job's last hold exactly task_size, and once the job is done they make up
\* the whole of its ids.
C2_Windows ==
    pc = "partition_task" =>
        /\ ids = tasks[j + 1].ids
        /\ n <= Len(sched)
        /\ Concat(Windows, n) = SubSeq(ids, 1, fst)
        /\ \A k \in 1..n :
              /\ Len(Windows[k]) >= 1
              /\ Len(Windows[k]) <= task_size
              /\ k < ntasks => Len(Windows[k]) = task_size
        /\ n = ntasks => Concat(Windows, n) = tasks[j + 1].ids

\* A job done in several windows, the last of them not full.
C2_Witness ==
    /\ pc = "partition_task"
    /\ n = ntasks
    /\ n >= 2
    /\ Len(Windows[n]) < task_size
    /\ Len(tasks[j + 1].ids) >= 3

\* C3: the data job of a slice on axis d at idx has the local index
\* idx mod F_d, only fragment IDs with idx / F_d at axis d, and as many of
\* them as the fragment counts of the other two axes multiply to.
C3_SliceDataJob ==
    (doc.function = "slice" /\ tasks # <<>>) =>
        LET d    == doc.dim
            F    == doc.shape
            C    == CubeOf(doc)
            job  == tasks[1]
            rest == {0, 1, 2} \ {d}
            lo   == CHOOSE k \in rest : \A h \in rest : k <= h
            hi   == CHOOSE k \in rest : \A h \in rest : k >= h
        IN  /\ job.idx = doc.idx % F[d + 1]
            /\ \A k \in 1..Len(job.ids) : job.ids[k][d + 1] = doc.idx \div F[d + 1]
            /\ Len(job.ids) = CeilDiv(C[lo + 1], F[lo + 1]) * CeilDiv(C[hi + 1], F[hi + 1])

\* A slice that is neither in the first fragment of its axis nor at the
\* first index of its fragment, with a face of several fragments.
C3_Witness ==
    /\ doc.function = "slice"
    /\ tasks # <<>>
    /\ tasks[1].idx >= 1
    /\ Len(tasks[1].ids) >= 2
    /\ tasks[1].ids[1][doc.dim + 1] >= 1

\* The data job of a curtain is complete once the second loop is left.
CurtainDataBuilt ==
    /\ doc.function = "curtain"
    /\ tasks # <<>>
    /\ pc \notin {"build", "curtain_reserve", "curtain_fill"}

Points(d) == [k \in 1..Len(d.dim0s) |-> <<d.dim0s[k], d.dim1s[k]>>]

\* The x-y fragment of a point.
Footprint(d, p) == <<p[1] \div d.shape[1], p[2] \div d.shape[2]>>

ZFrags(d) == CeilDiv(CubeOf(d)[3], d.shape[3])

\* C4: the data job of a curtain of N points holds zfrags singles for every
\* distinct x-y fragment under the points, and N * zfrags coordinates in all.
C4_CurtainCounts ==
    CurtainDataBuilt =>
        LET singles == tasks[1].ids
            pts     == Points(doc)
            distinct == {Footprint(doc, pts[k]) : k \in 1..Len(pts)}
        IN  /\ Len(singles) = Cardinality(distinct) * ZFrags(doc)
            /\ SumOver([k \in 1..Len(singles) |-> Len(singles[k].coordinates)], Len(singles))
                 = Len(pts) * ZFrags(doc)

\* Two points in one fragment of a cube several fragments deep.
C4_Witness ==
    /\ CurtainDataBuilt
    /\ Len(doc.dim0s) = 2
    /\ Footprint(doc, Points(doc)[1]) = Footprint(doc, Points(doc)[2])
    /\ Points(doc)[1] # Points(doc)[2]
    /\ Len(tasks[1].ids) >= 2

\* C5: the fragment IDs of every job are strictly increasing in the
\* lexicographic order, in the lists the planners are still inserting into too.
C5_SortedIds ==
    /\ \A k \in 1..Len(tasks) : StrictlySorted(doc, tasks[k].ids)
    /\ doc.function = "curtain" => StrictlySorted(doc, atask.ids)

\* A later point whose column has been inserted before the column of an
\* earlier point.
C5_Witness ==
    /\ pc = "curtain_reserve"
    /\ Len(tasks[1].ids) >= 4
    /\ tasks[1].ids[1].offset > tasks[1].ids[Len(tasks[1].ids)].offset

\* The local coordinates of the points from the k-th on that lie in the x-y
\* fragment fp, in input order.
RECURSIVE LocalsIn(_, _, _)
LocalsIn(d, fp, k) ==
    IF k > Len(d.dim0s) THEN <<>>
    ELSE (IF Footprint(d, Points(d)[k]) = fp
          THEN << <<d.dim0s[k] % d.shape[1], d.dim1s[k] % d.shape[2]>> >>
          ELSE <<>>)
         \o LocalsIn(d, fp, k + 1)

\* C6: every single of a curtain's data job lists the local coordinates of
\* exactly the points in its x-y fragment, in input order and with repeats,
\* all inside the fragment, and its offset is the first of those points.
C6_CurtainCoordinates ==
    CurtainDataBuilt =>
        \A k \in 1..Len(tasks[1].ids) :
            LET single == tasks[1].ids[k]
                fp     == <<single.id[1], single.id[2]>>
                hits   == {h \in 1..Len(doc.dim0s) : Footprint(doc, Points(doc)[h]) = fp}
            IN  /\ single.coordinates = LocalsIn(doc, fp, 1)
                /\ \A h \in 1..Len(single.coordinates) :
                      /\ single.coordinates[h][1] \in 0..(doc.shape[1] - 1)
                      /\ single.coordinates[h][2] \in 0..(doc.shape[2] - 1)
                /\ hits # {}
                /\ \A h \in hits : single.offset <= h - 1
                /\ single.offset + 1 \in hits

\* A single with the coordinates of two different points.
C6_Witness ==
    /\ CurtainDataBuilt
    /\ \E k \in 1..Len(tasks[1].ids) :
           /\ Len(tasks[1].ids[k].coordinates) = 2
           /\ tasks[1].ids[k].coordinates[1] # tasks[1].ids[k].coordinates[2]

\* A request of a known function in a document of format-version 1.
ValidRequest == doc.version = 1 /\ doc.function \in {"slice", "curtain"}

\* C7: a document whose manifest has a format-version other than 1 is turned
\* down with bad_document and nothing else, whatever its function and the
\* task_size.
C7_BadDocument ==
    (pc = "done" /\ doc.version # 1) => result.kind = "bad_document"

\* C8: a document of format-version 1 with a function other than slice and
\* curtain is turned down with an error of its own kind, not the kind that a
\* task_size below 1 is turned down with.
C8_UnknownFunction ==
    (pc = "done" /\ doc.version = 1 /\ doc.function \notin {"slice", "curtain"}) =>
        /\ result.kind \notin {"none", "taskset"}
        /\ result.kind # task_size_error(task_size)

\* C9: with a task_size below 1 a slice or curtain request ends in
\* std::logic_error, and at no time is there a record in the taskset or a
\* taskset returned.
C9_TaskSizeBelowOne ==
    (ValidRequest /\ task_size < 1) =>
        /\ sched = <<>>
        /\ result.kind \in {"none", "std::logic_error"}
        /\ pc = "done" => result.kind = "std::logic_error"

\* A curtain with bins planned and turned down for its task_size.
C9_Witness ==
    /\ ValidRequest
    /\ task_size < 1
    /\ pc = "done"
    /\ doc.function = "curtain"
    /\ fetch # <<>>
    /\ fetch[1].ids # <<>>
    /\ result.kind = "std::logic_error"

\* C10: a request one of whose jobs has no ids, planned with a task_size of 1
\* or more, returns a taskset.
C10_EmptyJobPlanned ==
    (/\ pc = "done"
     /\ ValidRequest
     /\ task_size >= 1
     /\ \E k \in 1..Len(tasks) : tasks[k].ids = <<>>) => result.kind = "taskset"

\* The names of a list.
Names(v) == {v[k] : k \in 1..Len(v)}

\* The attributes field of the header of the returned taskset.
HeaderAttributes == sched[Len(sched)].header.attributes

\* C11: the attributes field of the returned header is "data" followed by the
\* normalized list of the request: strictly ascending, without "cdp", with
\* "cdpx" and "cdpy" in place of a requested "cdp" and otherwise exactly the
\* requested names; normalizing the normalized list again changes nothing.
C11_HeaderAttributes ==
    Returned =>
        LET norm == Tail(HeaderAttributes)
            req  == Names(doc.attributes)
        IN  /\ HeaderAttributes[1] = "data"
            /\ norm = in.attributes
            /\ \A k \in 1..(Len(norm) - 1) : StrLess(norm[k], norm[k + 1])
            /\ "cdp" \notin Names(norm)
            /\ "cdp" \in req => {"cdpx", "cdpy"} \subseteq Names(norm)
            /\ Names(norm) = (req \ {"cdp"})
                                \cup (IF "cdp" \in req THEN {"cdpx", "cdpy"} ELSE {})
            /\ normalized_attributes([attributes |-> norm]) = norm

\* A returned header for a request that names cdp after a later name and
\* repeats a name.
C11_Witness ==
    /\ Returned
    /\ Len(doc.attributes) = MaxAttrs
    /\ \E k \in 2..Len(doc.attributes) :
           doc.attributes[k] = "cdp" /\ doc.attributes[k - 1] = "gap"
    /\ \E k \in 1..Len(doc.attributes) : \E h \in 1..(k - 1) :
           doc.attributes[k] = doc.attributes[h]
    /\ Len(HeaderAttributes) = 4

\* The shapes block of the header of the returned taskset.
HeaderShapes == sched[Len(sched)].header.shapes

\* A shapes block of a curtain: [2, d0, d1] for data, then [1, traces] for
\* each of k attributes.
CurtainShapes(d0, d1, traces, k) ==
    [h \in 1..(3 + 2 * k) |->
        IF h = 1 THEN 2
        ELSE IF h = 2 THEN d0
        ELSE IF h = 3 THEN d1
        ELSE IF h % 2 = 0 THEN 1 ELSE traces]

\* C12 as amended: the shapes block of a curtain's header is [2, |dim1s|, |M2|]
\* for data, the number of traces by the number of samples of the last axis,
\* followed by [1, |dim0s|] for each normalized attribute in attributes
\* order: 3 + 2 * (number of normalized attributes) entries.
C12_CurtainShapes ==
    (Returned /\ doc.function = "curtain") =>
        /\ HeaderShapes = CurtainShapes(Len(doc.dim1s), Len(doc.line_numbers[3]),
                                        Len(doc.dim0s), Len(HeaderAttributes) - 1)
        /\ Len(HeaderShapes) = 3 + 2 * Len(in.attributes)
        /\ Tail(HeaderAttributes) = in.attributes

\* C12 as stated: the data entry of the shapes block is [2, |dim0s|, |dim1s|].
C12_CurtainShapesAsStated ==
    (Returned /\ doc.function = "curtain") =>
        HeaderShapes = CurtainShapes(Len(doc.dim0s), Len(doc.dim1s),
                                     Len(doc.dim0s), Len(HeaderAttributes) - 1)

\* The header of a curtain with attributes whose number of points is not the
\* number of samples of the last axis.
C12_Witness ==
    /\ Returned
    /\ doc.function = "curtain"
    /\ Len(in.attributes) >= 2
    /\ Len(doc.dim0s) >= 1
    /\ Len(doc.dim0s) # Len(doc.line_numbers[3])

\* build(slice_query) has returned its jobs.
SliceBuilt ==
    /\ doc.function = "slice"
    /\ tasks # <<>>
    /\ pc \notin {"build", "slice_attr"}

\* The attribute types the manifest of the request declares.
Declared(d) == {d.attr[k].type : k \in 1..Len(d.attr)}

\* The first descriptor the manifest has of a type.
DescOf(d, type) ==
    d.attr[CHOOSE k \in 1..Len(d.attr) :
               d.attr[k].type = type /\ \A h \in 1..(k - 1) : d.attr[h].type # type]

\* C13: build of a slice returns the data job and then one job for every
\* normalized attribute the manifest declares, in normalized order and none
\* for the others; an attribute job has the attribute's own cube and fragment
\* shape, idx' = idx mod C_attr[dim], the local index idx' mod F_attr[dim], and
\* only fragment IDs inside the attribute's fragment grid whose dim-coordinate
\* is idx' / F_attr[dim].
C13_SliceAttributeJobs ==
    SliceBuilt =>
        LET wanted == SelectSeq(in.attributes, LAMBDA type : type \in Declared(doc))
            d      == doc.dim
        IN  /\ Len(tasks) = 1 + Len(wanted)
            /\ tasks[1].attribute = "data"
            /\ \A k \in 1..Len(wanted) :
                  LET job   == tasks[k + 1]
                      desc  == DescOf(doc, wanted[k])
                      C     == CubeOf(desc)
                      F     == desc.shape
                      idx1  == doc.idx % C[d + 1]
                  IN  /\ job.attribute = wanted[k]
                      /\ job.shape_cube = C
                      /\ job.shape = F
                      /\ job.idx = idx1 % F[d + 1]
                      /\ \A m \in 1..Len(job.ids) :
                            /\ job.ids[m][d + 1] = idx1 \div F[d + 1]
                            /\ \A h \in 1..3 :
                                  job.ids[m][h] \in 0..(CeilDiv(C[h], F[h]) - 1)

\* A slice along the last axis past its first line, with two attribute jobs
\* of several fragments each, in another order than the manifest declares
\* them.
C13_Witness ==
    /\ SliceBuilt
    /\ doc.dim = 2
    /\ doc.idx >= 1
    /\ Len(tasks) = 3
    /\ tasks[2].attribute # doc.attr[1].type
    /\ Len(tasks[2].ids) >= 2
    /\ Len(tasks[1].ids) # Len(tasks[2].ids)

\* The sum jobs + task_size - 1 of the call does not fit the width.
Overflows == task_count_sum(tc.jobs, tc.task_size) > IntMax(tc.width)

\* C14: for jobs >= 1 and task_size >= 1 task_count returns exactly
\* ceil(jobs / task_size) or fails; when jobs + task_size - 1 overflows the
\* width the wrapped quotient is at most 0 and the call fails, so no overflow
\* returns a task count.
C14_TaskCount ==
    (tc.pc # "none" /\ tc.jobs >= 1 /\ tc.task_size >= 1) =>
        /\ (tc.pc \in {"assert", "test"} /\ Overflows) => tc.x <= 0
        /\ tc.pc = "done" =>
              /\ tc.result \in {"returned", "abort", "std::runtime_error", "trap"}
              /\ tc.result = "returned" => tc.x = CeilDiv(tc.jobs, tc.task_size)
              /\ Overflows => tc.result # "returned"
              /\ ~Overflows => tc.result = "returned"

\* An overflow whose wrapped quotient is 0, past the assert and thrown.
C14_Witness ==
    /\ tc.pc = "done"
    /\ tc.jobs >= 1
    /\ Overflows
    /\ tc.x = 0
    /\ tc.result = "std::runtime_error"

\* bin has returned its bins to main.
BinReturned == st.pc \in {"main", "done"}

\* The boundaries bin returns for a surface that is not empty: one more than
\* keys, from 0, strictly increasing, up to the number of points.
BinBoundaries ==
    (BinReturned /\ st.xs # <<>>) =>
        LET itrs == st.ret.itrs
        IN  /\ Len(itrs) = Len(st.ret.keys) + 1
            /\ itrs[1] = 0
            /\ \A k \in 1..(Len(itrs) - 1) : itrs[k] < itrs[k + 1]
            /\ itrs[Len(itrs)] = Len(st.xs)
            /\ Len(st.ret.data) = Len(st.xs)

\* C15: bin returns K keys and boundaries that start at 0, increase strictly
\* and end at the number of points, and every index i main's loop passes to
\* bins.at satisfies i < |keys| and i + 1 < |itrs|, so that no bin read
\* leaves the keys, itrs and data arrays.
C15_BinReads ==
    /\ BinBoundaries
    /\ (BinReturned /\ st.at # -1) =>
          /\ st.at < Len(st.ret.keys)
          /\ st.at + 1 < Len(st.ret.itrs)
          /\ st.outcome = "none"

====
